---- MODULE Spec2Model ----
(***************************************************************************)
(* Transport-parameter codec of neqo-transport (tparams.rs):               *)
(* TransportParameter, TransportParameters and the handshake extension     *)
(* handler TransportParametersHandler.                                     *)
(*                                                                         *)
(* Bytes are naturals 0..255, buffers are sequences of bytes.  Integers    *)
(* are u64 in the code; every value the model draws is below 2^31, which   *)
(* still exercises all four varint widths (1, 2, 4 and 8 bytes).           *)
(***************************************************************************)
EXTENDS Integers, Sequences, FiniteSets, TLC

VARIABLES
    local,    \* TransportParametersHandler.local  (a TransportParameters)
    remote,   \* TransportParametersHandler.remote (Option<TransportParameters>)
    peer,     \* a second handler, the other end of the connection
    phase,    \* where the owner of the handler is: "setup" or "handshake"
    arg,      \* arguments of the last call
    ret       \* what the last call returned (and the buffers it left behind)

vars == <<local, remote, peer, phase, arg, ret>>

(***************************************************************************)
(* Bounds of the model.                                                    *)
(***************************************************************************)
\* entries a set built through the setters (or drawn as an input) may hold
MaxEntries == 2
\* TLV entries (well-formed or not) concatenated into one wire input
MaxWireEntries == 2

(***************************************************************************)
(* consts                                                                  *)
(***************************************************************************)
TRANSPORT_PARAMETER_ORIGINAL_CONNECTION_ID == 0
TRANSPORT_PARAMETER_IDLE_TIMEOUT == 1
TRANSPORT_PARAMETER_STATELESS_RESET_TOKEN == 2
TRANSPORT_PARAMETER_MAX_PACKET_SIZE == 3
TRANSPORT_PARAMETER_INITIAL_MAX_DATA == 4
TRANSPORT_PARAMETER_INITIAL_MAX_STREAM_DATA_BIDI_LOCAL == 5
TRANSPORT_PARAMETER_INITIAL_MAX_STREAM_DATA_BIDI_REMOTE == 6
TRANSPORT_PARAMETER_INITIAL_MAX_STREAM_DATA_UNI == 7
TRANSPORT_PARAMETER_INITIAL_MAX_STREAMS_BIDI == 8
TRANSPORT_PARAMETER_INITIAL_MAX_STREAMS_UNI == 9
TRANSPORT_PARAMETER_ACK_DELAY_EXPONENT == 10
TRANSPORT_PARAMETER_MAX_ACK_DELAY == 11
TRANSPORT_PARAMETER_DISABLE_MIGRATION == 12
TRANSPORT_PARAMETER_PREFERRED_ADDRESS == 13

\* handshake message kinds, imported from neqo_crypto
TLS_HS_CLIENT_HELLO == "client_hello"
TLS_HS_ENCRYPTED_EXTENSIONS == "encrypted_extensions"

(***************************************************************************)
(* enum TransportParameter                                                 *)
(***************************************************************************)
Bytes(a) == [variant |-> "Bytes", bytes |-> a, int |-> 0]
Integer(x) == [variant |-> "Integer", bytes |-> <<>>, int |-> x]
Empty == [variant |-> "Empty", bytes |-> <<>>, int |-> 0]

(***************************************************************************)
(* neqo_common::data::Data, a byte vector with a read cursor, and          *)
(* neqo_common::varint.  A failed read leaves the cursor where it was.     *)
(***************************************************************************)
Data(b) == [buf |-> b, offset |-> 0]

Remaining(d) == Len(d.buf) - d.offset

\* the value Only holds; used as Only({F(x) : x \in {e}}) where an operator
\* binds the result of a call that it then reads more than once
Only(S) == CHOOSE v \in S : TRUE

\* the first n bytes of s as a big-endian number
RECURSIVE BigEndianN(_, _)
BigEndianN(s, n) == IF n = 0 THEN 0 ELSE BigEndianN(s, n - 1) * 256 + s[n]

BigEndian(s) == Only({ BigEndianN(b, Len(b)) : b \in {s} })

RECURSIVE ShiftRight8(_, _)
ShiftRight8(v, k) == IF k = 0 THEN v ELSE ShiftRight8(v \div 256, k - 1)

\* Data::encode_uint(v, n): n bytes, big-endian
EncodeUint(v, n) == [i \in 1..n |-> ShiftRight8(v, n - i) % 256]

\* Data::decode_uint(n)
DecodeUint(d, n) ==
    IF Remaining(d) < n
    THEN [ok |-> FALSE, err |-> "NoMoreData", v |-> 0, d |-> d]
    ELSE [ok |-> TRUE, err |-> "",
          v |-> BigEndian(SubSeq(d.buf, d.offset + 1, d.offset + n)),
          d |-> [d EXCEPT !.offset = @ + n]]

\* Data::decode_data(n)
DecodeData(d, n) ==
    IF Remaining(d) < n
    THEN [ok |-> FALSE, err |-> "NoMoreData", v |-> <<>>, d |-> d]
    ELSE [ok |-> TRUE, err |-> "",
          v |-> SubSeq(d.buf, d.offset + 1, d.offset + n),
          d |-> [d EXCEPT !.offset = @ + n]]

\* get_varint_len(v): the width of the minimal encoding
GetVarintLen(v) ==
    IF v < 64 THEN 1
    ELSE IF v < 16384 THEN 2
    ELSE IF v < 1073741824 THEN 4
    ELSE 8

\* Data::encode_varint(v): the two top bits of the first byte give the width
EncodeVarint(v) ==
    LET n == GetVarintLen(v)
        prefix == CASE n = 1 -> 0 [] n = 2 -> 64 [] n = 4 -> 128 [] n = 8 -> 192
        raw == EncodeUint(v, n)
    IN  [raw EXCEPT ![1] = @ + prefix]

\* Data::decode_varint()
DecodeVarint(d) ==
    IF Remaining(d) < 1
    THEN [ok |-> FALSE, err |-> "NoMoreData", v |-> 0, d |-> d]
    ELSE LET b == d.buf[d.offset + 1]
             n == CASE b \div 64 = 0 -> 1 [] b \div 64 = 1 -> 2
                    [] b \div 64 = 2 -> 4 [] b \div 64 = 3 -> 8
         IN  IF Remaining(d) < n
             THEN [ok |-> FALSE, err |-> "NoMoreData", v |-> 0, d |-> d]
             ELSE [ok |-> TRUE, err |-> "",
                   v |-> BigEndian(<<b % 64>> \o
                                   SubSeq(d.buf, d.offset + 2, d.offset + n)),
                   d |-> [d EXCEPT !.offset = @ + n]]

(***************************************************************************)
(* impl TransportParameter                                                 *)
(***************************************************************************)
\* faulty variant of TransportParameterEncode: an Integer's declared length
\* is always 1
TransportParameterEncodeLengthOne(tp, tipe) ==
    EncodeUint(tipe, 2) \o
    ( CASE tp.variant = "Bytes" ->
             EncodeUint(Len(tp.bytes), 2) \o tp.bytes
        [] tp.variant = "Integer" ->
             EncodeUint(1, 2) \o EncodeVarint(tp.int)
        [] tp.variant = "Empty" ->
             EncodeUint(0, 2) )

\* TransportParameter::encode(&self, d, tipe): the bytes appended to d
TransportParameterEncode(tp, tipe) ==
    EncodeUint(tipe, 2) \o
    ( CASE tp.variant = "Bytes" ->
             EncodeUint(Len(tp.bytes), 2) \o tp.bytes
        [] tp.variant = "Integer" ->
             EncodeUint(GetVarintLen(tp.int), 2) \o EncodeVarint(tp.int)
        [] tp.variant = "Empty" ->
             EncodeUint(0, 2) )

IntegerNoCheck ==
    { TRANSPORT_PARAMETER_IDLE_TIMEOUT,
      TRANSPORT_PARAMETER_INITIAL_MAX_DATA,
      TRANSPORT_PARAMETER_INITIAL_MAX_STREAM_DATA_BIDI_LOCAL,
      TRANSPORT_PARAMETER_INITIAL_MAX_STREAM_DATA_BIDI_REMOTE,
      TRANSPORT_PARAMETER_INITIAL_MAX_STREAM_DATA_UNI,
      TRANSPORT_PARAMETER_INITIAL_MAX_STREAMS_BIDI,
      TRANSPORT_PARAMETER_INITIAL_MAX_STREAMS_UNI,
      TRANSPORT_PARAMETER_MAX_ACK_DELAY }

DecodeErr(e, d) ==
    [ok |-> FALSE, err |-> e, tipe |-> 0, tp |-> Empty, d |-> d]

DecodeOk(tipe, tp, d) ==
    [ok |-> TRUE, err |-> "", tipe |-> tipe, tp |-> tp, d |-> d]

\* the three per-code checks of the match
ResetTokenLengthWrong(length) == length # 16

\* faulty variant of MaxPacketSizeTooSmall: rejects 1200 as well
MaxPacketSizeOffByOne(tmp) == tmp <= 1200

MaxPacketSizeTooSmall(tmp) == tmp < 1200

AckDelayExponentTooLarge(tmp) == tmp > 20

\* the match on tipe: the value decoder of each code.  fin is TRUE when the
\* arm returns from decode (an error), FALSE when it yields tp.
DecodeValue(tipe, length, d) ==
    CASE tipe = TRANSPORT_PARAMETER_ORIGINAL_CONNECTION_ID ->
           LET r == DecodeData(d, length)
           IN  IF ~r.ok THEN [fin |-> TRUE, err |-> r.err, tp |-> Empty, d |-> r.d]
               ELSE [fin |-> FALSE, err |-> "", tp |-> Bytes(r.v), d |-> r.d]
      [] tipe = TRANSPORT_PARAMETER_STATELESS_RESET_TOKEN ->
           IF ResetTokenLengthWrong(length)
           THEN [fin |-> TRUE, err |-> "TransportParameterError", tp |-> Empty, d |-> d]
           ELSE LET r == DecodeData(d, length)
                IN  IF ~r.ok
                    THEN [fin |-> TRUE, err |-> r.err, tp |-> Empty, d |-> r.d]
                    ELSE [fin |-> FALSE, err |-> "", tp |-> Bytes(r.v), d |-> r.d]
      [] tipe \in IntegerNoCheck ->
           LET r == DecodeVarint(d)
           IN  IF ~r.ok THEN [fin |-> TRUE, err |-> r.err, tp |-> Empty, d |-> r.d]
               ELSE [fin |-> FALSE, err |-> "", tp |-> Integer(r.v), d |-> r.d]
      [] tipe = TRANSPORT_PARAMETER_MAX_PACKET_SIZE ->
           LET r == DecodeVarint(d)
           IN  IF ~r.ok THEN [fin |-> TRUE, err |-> r.err, tp |-> Empty, d |-> r.d]
               ELSE IF MaxPacketSizeTooSmall(r.v)
               THEN [fin |-> TRUE, err |-> "TransportParameterError",
                     tp |-> Empty, d |-> r.d]
               ELSE [fin |-> FALSE, err |-> "", tp |-> Integer(r.v), d |-> r.d]
      [] tipe = TRANSPORT_PARAMETER_ACK_DELAY_EXPONENT ->
           LET r == DecodeVarint(d)
           IN  IF ~r.ok THEN [fin |-> TRUE, err |-> r.err, tp |-> Empty, d |-> r.d]
               ELSE IF AckDelayExponentTooLarge(r.v)
               THEN [fin |-> TRUE, err |-> "TransportParameterError",
                     tp |-> Empty, d |-> r.d]
               ELSE [fin |-> FALSE, err |-> "", tp |-> Integer(r.v), d |-> r.d]
      [] OTHER ->
           LET r == DecodeData(d, length)
           IN  IF ~r.ok THEN [fin |-> TRUE, err |-> r.err, tp |-> Empty, d |-> r.d]
               ELSE [fin |-> TRUE, err |-> "UnknownTransportParameter",
                     tp |-> Empty, d |-> r.d]

\* the two checks after the match ("Check that we consumed the right
\* amount"): both compare with >, so only over-consumption is caught, and it
\* is reported as NoMoreData
ConsumedCheck(remaining, d, length) ==
    IF (remaining - Remaining(d)) > length THEN "NoMoreData"
    ELSE IF (remaining - Remaining(d)) > length THEN "TooMuchData"
    ELSE ""

\* TransportParameter::decode(d): t and l are the two decode_uint(2) calls,
\* m the match on tipe
TransportParameterDecode(d) ==
    LET AfterMatch(tipe, length, remaining, m) ==
            IF m.fin THEN DecodeErr(m.err, m.d)
            ELSE LET c == ConsumedCheck(remaining, m.d, length)
                 IN  IF c # "" THEN DecodeErr(c, m.d)
                     ELSE DecodeOk(tipe, m.tp, m.d)
        AfterLength(t, l) ==
            IF ~l.ok THEN DecodeErr(l.err, l.d)
            ELSE Only({ AfterMatch(t.v, l.v, Remaining(l.d), m) :
                        m \in {DecodeValue(t.v, l.v, l.d)} })
        AfterTipe(t) ==
            IF ~t.ok THEN DecodeErr(t.err, t.d)
            ELSE Only({ AfterLength(t, l) : l \in {DecodeUint(t.d, 2)} })
    IN  Only({ AfterTipe(t) : t \in {DecodeUint(d, 2)} })

(***************************************************************************)
(* impl TransportParameters.  A TransportParameters is its params map: a   *)
(* function from the codes present to their TransportParameter.            *)
(***************************************************************************)
Default == [t \in {} |-> Empty]

Insert(params, tipe, tp) ==
    [t \in (DOMAIN params) \cup {tipe} |-> IF t = tipe THEN tp ELSE params[t]]

\* the orders in which a HashMap over the keys S may yield its entries
Orders(S) ==
    { o \in [1..Cardinality(S) -> S] :
        \A i, j \in 1..Cardinality(S) : o[i] = o[j] => i = j }

RECURSIVE EncodeInOrder(_, _)
EncodeInOrder(params, order) ==
    IF order = <<>> THEN <<>>
    ELSE TransportParameterEncode(params[Head(order)], Head(order))
         \o EncodeInOrder(params, Tail(order))

\* TransportParameters::encode(&self, d): one encoding per iteration order
TransportParametersEncode(params) ==
    { EncodeInOrder(params, o) : o \in Orders(DOMAIN params) }

SetErr(e) == [ok |-> FALSE, err |-> e, tps |-> Default]

SetOk(params) == [ok |-> TRUE, err |-> "", tps |-> params]

\* faulty variant of DecodeArm: the unknown-parameter signal aborts the loop
DecodeArmUnknownAborts(r) == IF r.ok THEN "insert" ELSE "abort"

\* the arm the decode loop's match takes on the result r of one
\* TransportParameter::decode
DecodeArm(r) ==
    IF r.ok THEN "insert"
    ELSE IF r.err = "UnknownTransportParameter" THEN "skip"
    ELSE "abort"

RECURSIVE DecodeLoop(_, _)
DecodeLoop(d, params) ==
    LET Arm(r) ==
            CASE DecodeArm(r) = "insert" ->
                   Only({ DecodeLoop(r.d, p) :
                          p \in {Insert(params, r.tipe, r.tp)} })
              [] DecodeArm(r) = "skip" -> DecodeLoop(r.d, params)
              [] DecodeArm(r) = "abort" -> SetErr(r.err)
    IN  IF Remaining(d) > 0
        THEN Only({ Arm(r) : r \in {TransportParameterDecode(d)} })
        ELSE SetOk(params)

\* TransportParameters::decode(d)
TransportParametersDecode(d) ==
    Only({ DecodeLoop(b, Default) : b \in {d} })

IntegerCodes ==
    { TRANSPORT_PARAMETER_IDLE_TIMEOUT,
      TRANSPORT_PARAMETER_INITIAL_MAX_DATA,
      TRANSPORT_PARAMETER_INITIAL_MAX_STREAM_DATA_BIDI_LOCAL,
      TRANSPORT_PARAMETER_INITIAL_MAX_STREAM_DATA_BIDI_REMOTE,
      TRANSPORT_PARAMETER_INITIAL_MAX_STREAM_DATA_UNI,
      TRANSPORT_PARAMETER_INITIAL_MAX_STREAMS_BIDI,
      TRANSPORT_PARAMETER_INITIAL_MAX_STREAMS_UNI,
      TRANSPORT_PARAMETER_MAX_PACKET_SIZE,
      TRANSPORT_PARAMETER_ACK_DELAY_EXPONENT,
      TRANSPORT_PARAMETER_MAX_ACK_DELAY }

BytesCodes ==
    { TRANSPORT_PARAMETER_ORIGINAL_CONNECTION_ID,
      TRANSPORT_PARAMETER_STATELESS_RESET_TOKEN }

\* a return value of an accessor or of the handler: a kind, a number (the
\* integer, the byte count, the alert), and bytes (Some(bytes), the buffer)
Ret(kind, n, bytes) == [kind |-> kind, n |-> n, bytes |-> bytes]

Panic(message) == [kind |-> "Panic", n |-> 0, bytes |-> <<>>, message |-> message]

\* faulty variant of IntegerDefault: every default is 0
IntegerDefaultAllZero(tipe) == IF tipe \in IntegerCodes THEN 0 ELSE -1

\* the default arm of get_integer
IntegerDefault(tipe) ==
    CASE tipe \in { TRANSPORT_PARAMETER_IDLE_TIMEOUT,
                    TRANSPORT_PARAMETER_INITIAL_MAX_DATA,
                    TRANSPORT_PARAMETER_INITIAL_MAX_STREAM_DATA_BIDI_LOCAL,
                    TRANSPORT_PARAMETER_INITIAL_MAX_STREAM_DATA_BIDI_REMOTE,
                    TRANSPORT_PARAMETER_INITIAL_MAX_STREAM_DATA_UNI,
                    TRANSPORT_PARAMETER_INITIAL_MAX_STREAMS_BIDI,
                    TRANSPORT_PARAMETER_INITIAL_MAX_STREAMS_UNI } -> 0
      [] tipe = TRANSPORT_PARAMETER_MAX_PACKET_SIZE -> 65527
      [] tipe = TRANSPORT_PARAMETER_ACK_DELAY_EXPONENT -> 3
      [] tipe = TRANSPORT_PARAMETER_MAX_ACK_DELAY -> 25
      [] OTHER -> -1

\* TransportParameters::get_integer(&self, tipe)
GetInteger(params, tipe) ==
    IF IntegerDefault(tipe) = -1
    THEN Panic("Transport parameter not known or not an Integer")
    ELSE IF tipe \notin DOMAIN params THEN Ret("Integer", IntegerDefault(tipe), <<>>)
    ELSE IF params[tipe].variant = "Integer"
    THEN Ret("Integer", params[tipe].int, <<>>)
    ELSE Panic("Internal error")

\* TransportParameters::set_integer(&mut self, tipe, value): the new map, or
\* the panic
SetInteger(params, tipe, value) ==
    IF tipe \in IntegerCodes
    THEN [panic |-> FALSE, params |-> Insert(params, tipe, Integer(value))]
    ELSE [panic |-> TRUE, params |-> params]

\* TransportParameters::get_bytes(&self, tipe)
GetBytes(params, tipe) ==
    IF tipe \notin BytesCodes
    THEN Panic("Transport parameter not known or not type bytes")
    ELSE IF tipe \notin DOMAIN params THEN Ret("None", 0, <<>>)
    ELSE IF params[tipe].variant = "Bytes"
    THEN Ret("Some", 0, params[tipe].bytes)
    ELSE Panic("Internal error")

\* faulty variant of SetBytes: no check of the code
SetBytesAnyCode(params, tipe, value) ==
    [panic |-> FALSE, params |-> Insert(params, tipe, Bytes(value))]

\* TransportParameters::set_bytes(&mut self, tipe, value)
SetBytes(params, tipe, value) ==
    IF tipe \in BytesCodes
    THEN [panic |-> FALSE, params |-> Insert(params, tipe, Bytes(value))]
    ELSE [panic |-> TRUE, params |-> params]

\* TransportParameters::was_sent(&self, tipe)
WasSent(params, tipe) == tipe \in DOMAIN params

(***************************************************************************)
(* impl ExtensionHandler for TransportParametersHandler                    *)
(***************************************************************************)
None == [some |-> FALSE, tps |-> Default]

Some(params) == [some |-> TRUE, tps |-> params]

Relevant(msg) == msg \in {TLS_HS_CLIENT_HELLO, TLS_HS_ENCRYPTED_EXTENSIONS}

\* faulty variant of HandlerWrite: no test of the message kind
HandlerWriteAnyMessage(msg, d, buf) ==
    IF ~(Len(buf) <= Len(d)) THEN Panic("assertion failed")
    ELSE Ret("Write", Len(buf), buf \o SubSeq(d, Len(buf) + 1, Len(d)))

\* write(&mut self, msg, d): d is the caller's output slice, buf one encoding
\* of self.local (the map's iteration order chooses which); gives the return
\* value with the slice as the call leaves it
HandlerWrite(msg, d, buf) ==
    IF ~Relevant(msg) THEN Ret("Skip", 0, d)
    ELSE IF ~(Len(buf) <= Len(d)) THEN Panic("assertion failed")
    ELSE Ret("Write", Len(buf), buf \o SubSeq(d, Len(buf) + 1, Len(d)))

\* faulty variant of HandlerHandle: remote is assigned before the result of
\* decode is looked at
HandlerHandleStoresOnError(rem, msg, d) ==
    IF ~Relevant(msg) THEN [ret |-> Ret("Alert", 110, <<>>), remote |-> rem]
    ELSE LET Arm(r) ==
                 IF ~r.ok
                 THEN [ret |-> Ret("Alert", 47, <<>>), remote |-> Some(r.tps)]
                 ELSE [ret |-> Ret("Ok", 0, <<>>), remote |-> Some(r.tps)]
         IN  Only({ Arm(r) : r \in {TransportParametersDecode(Data(d))} })

\* variant of HandlerHandle that stores a set only while remote is None
HandlerHandleKeepsFirst(rem, msg, d) ==
    IF ~Relevant(msg) THEN [ret |-> Ret("Alert", 110, <<>>), remote |-> rem]
    ELSE LET Arm(r) ==
                 IF ~r.ok THEN [ret |-> Ret("Alert", 47, <<>>), remote |-> rem]
                 ELSE [ret |-> Ret("Ok", 0, <<>>),
                       remote |-> IF rem.some THEN rem ELSE Some(r.tps)]
         IN  Only({ Arm(r) : r \in {TransportParametersDecode(Data(d))} })

\* handle(&mut self, msg, d): the return value and self.remote after the call
HandlerHandle(rem, msg, d) ==
    IF ~Relevant(msg) THEN [ret |-> Ret("Alert", 110, <<>>), remote |-> rem]
    ELSE LET Arm(r) ==
                 IF ~r.ok THEN [ret |-> Ret("Alert", 47, <<>>), remote |-> rem]
                 ELSE [ret |-> Ret("Ok", 0, <<>>), remote |-> Some(r.tps)]
         IN  Only({ Arm(r) : r \in {TransportParametersDecode(Data(d))} })

(***************************************************************************)
(* Inputs.                                                                 *)
(***************************************************************************)
\* the reset token of tests::test_basic_tps, and one byte less and more
Token16 == <<1, 2, 3, 4, 5, 6, 7, 8, 1, 2, 3, 4, 5, 6, 7, 8>>

Token15 == SubSeq(Token16, 1, 15)

Token17 == Token16 \o <<9>>

\* message kinds the framework calls with: the two relevant ones and two
\* others
MsgKinds ==
    {TLS_HS_CLIENT_HELLO, "server_hello", TLS_HS_ENCRYPTED_EXTENSIONS, "certificate"}

\* codes the accessors are called with: the registry and one code outside it
AccessorCodes == 0..14

\* integers that meet the wire constraints of each integer code; between
\* them the codes cover the four varint widths and their edges
ValidIntegers(tipe) ==
    CASE tipe = TRANSPORT_PARAMETER_IDLE_TIMEOUT -> {0, 63}
      [] tipe = TRANSPORT_PARAMETER_MAX_PACKET_SIZE -> {1200, 65527}
      [] tipe = TRANSPORT_PARAMETER_INITIAL_MAX_DATA -> {64, 16383}
      [] tipe = TRANSPORT_PARAMETER_INITIAL_MAX_STREAM_DATA_BIDI_LOCAL ->
           {16384, 1073741823}
      [] tipe = TRANSPORT_PARAMETER_INITIAL_MAX_STREAM_DATA_BIDI_REMOTE ->
           {1073741824, 2147483647}
      [] tipe = TRANSPORT_PARAMETER_INITIAL_MAX_STREAM_DATA_UNI -> {0, 25}
      [] tipe = TRANSPORT_PARAMETER_INITIAL_MAX_STREAMS_BIDI -> {10, 64}
      [] tipe = TRANSPORT_PARAMETER_INITIAL_MAX_STREAMS_UNI -> {63, 16384}
      [] tipe = TRANSPORT_PARAMETER_ACK_DELAY_EXPONENT -> {0, 20}
      [] tipe = TRANSPORT_PARAMETER_MAX_ACK_DELAY -> {25, 1073741824}
      [] OTHER -> {}

\* what set_integer is called with: any u64, so also the values next to the
\* wire constraints, and a value for the codes it does not accept
SetIntegerValues(tipe) ==
    CASE tipe = TRANSPORT_PARAMETER_IDLE_TIMEOUT -> {0, 63}
      [] tipe = TRANSPORT_PARAMETER_MAX_PACKET_SIZE -> {1199, 1200}
      [] tipe = TRANSPORT_PARAMETER_INITIAL_MAX_DATA -> {16383}
      [] tipe = TRANSPORT_PARAMETER_INITIAL_MAX_STREAM_DATA_BIDI_LOCAL ->
           {1073741823}
      [] tipe = TRANSPORT_PARAMETER_INITIAL_MAX_STREAM_DATA_BIDI_REMOTE ->
           {2147483647}
      [] tipe = TRANSPORT_PARAMETER_INITIAL_MAX_STREAM_DATA_UNI -> {25}
      [] tipe = TRANSPORT_PARAMETER_INITIAL_MAX_STREAMS_BIDI -> {64}
      [] tipe = TRANSPORT_PARAMETER_INITIAL_MAX_STREAMS_UNI -> {16384}
      [] tipe = TRANSPORT_PARAMETER_ACK_DELAY_EXPONENT -> {20, 21}
      [] tipe = TRANSPORT_PARAMETER_MAX_ACK_DELAY -> {1073741824}
      [] OTHER -> {7}

\* what set_bytes is called with
SetBytesValues(tipe) ==
    CASE tipe = TRANSPORT_PARAMETER_ORIGINAL_CONNECTION_ID -> {<<>>, <<1, 2>>}
      [] tipe = TRANSPORT_PARAMETER_STATELESS_RESET_TOKEN -> {Token15, Token16}
      [] OTHER -> {<<7>>}

\* the entries that meet the wire constraints of their code
ValidValues(tipe) ==
    CASE tipe = TRANSPORT_PARAMETER_ORIGINAL_CONNECTION_ID ->
           {Bytes(<<>>), Bytes(<<1, 2>>)}
      [] tipe = TRANSPORT_PARAMETER_STATELESS_RESET_TOKEN -> {Bytes(Token16)}
      [] tipe \in IntegerCodes -> {Integer(v) : v \in ValidIntegers(tipe)}
      [] tipe = TRANSPORT_PARAMETER_DISABLE_MIGRATION -> {Empty}
      [] OTHER -> {}

\* the parameter sets of at most MaxEntries valid entries
ValidSets ==
    UNION { { p \in [S -> UNION {ValidValues(t) : t \in S}] :
                \A t \in S : p[t] \in ValidValues(t) } :
            S \in { T \in SUBSET (0..12) : Cardinality(T) <= MaxEntries } }

\* one TLV entry as bytes: code, declared length, payload
Entry(tipe, length, payload) ==
    EncodeUint(tipe, 2) \o EncodeUint(length, 2) \o payload

\* pieces of wire input: well-formed known entries, entries at the edges of
\* the per-code constraints, entries whose declared length is not what the
\* value decoder consumes, entries with codes the decoder does not know, and
\* cut-off input
Chunks ==
    { Entry(0, 0, <<>>),
      Entry(0, 2, <<1, 2>>),
      Entry(2, 16, Token16),
      Entry(1, 1, <<5>>),
      Entry(1, 2, <<64, 5>>),
      Entry(3, 2, <<68, 176>>),
      Entry(10, 1, <<20>>),
      Entry(4, 4, <<128, 0, 64, 0>>),
      Entry(8, 8, <<192, 0, 0, 0, 64, 0, 0, 0>>),
      Entry(11, 1, <<25>>),
      Entry(3, 2, <<68, 175>>),
      Entry(3, 1, <<63>>),
      Entry(10, 1, <<21>>),
      Entry(2, 15, Token15),
      Entry(2, 17, Token17),
      Entry(1, 2, <<5, 0>>),
      Entry(1, 6, <<5>> \o Entry(1, 1, <<7>>)),
      Entry(1, 1, <<64, 5>>),
      Entry(1, 0, <<>>),
      Entry(12, 0, <<>>),
      Entry(13, 2, <<9, 9>>),
      Entry(14, 1, <<7>>),
      Entry(14, 4, <<1>>),
      <<0>>,
      <<0, 1, 0>> }

RECURSIVE Concats(_)
Concats(n) ==
    IF n = 0 THEN {<<>>}
    ELSE LET prev == Concats(n - 1)
         IN  prev \cup { p \o c : p \in prev, c \in Chunks }

\* wire inputs of the codec: up to MaxWireEntries pieces back to back
WireInputs == Concats(MaxWireEntries)

\* wire inputs the handler is called with
HandleInputs ==
    { <<>>,
      Entry(1, 1, <<5>>),
      Entry(10, 1, <<20>>),
      Entry(2, 16, Token16) \o Entry(8, 1, <<10>>),
      Entry(1, 1, <<5>>) \o Entry(1, 1, <<7>>),
      Entry(14, 1, <<7>>) \o Entry(1, 1, <<5>>),
      Entry(12, 0, <<>>),
      Entry(0, 2, <<1, 2>>) \o Entry(3, 2, <<68, 175>>),
      Entry(1, 1, <<5>>) \o Entry(2, 15, Token15),
      Entry(1, 1, <<5>>) \o Entry(10, 1, <<21>>),
      Entry(1, 1, <<5>>) \o <<0, 1, 0>>,
      Entry(1, 1, <<64, 5>>),
      Entry(1, 6, <<5>> \o Entry(1, 1, <<7>>)),
      Entry(14, 4, <<1>>) }

\* output slices the framework hands to write: too short for any entry, and
\* long enough for every set of the model; filled with 170
OutCapacity == 48

OutSlices == { [i \in 1..n |-> 170] : n \in {3, OutCapacity} }

\* the local sets a handler starts the handshake with
InitLocals ==
    { Default,
      (1 :> Integer(63)),
      (2 :> Bytes(Token16)) @@ (8 :> Integer(10)) }

(***************************************************************************)
(* State.                                                                  *)
(***************************************************************************)
\* the arguments of a call; was is the remote field of the handler called,
\* as the call found it
Call(op, of, msg, tipe, value, d) ==
    [op |-> op, of |-> of, msg |-> msg, tipe |-> tipe, value |-> value,
     d |-> d, tps |-> Default, was |-> remote]

NoCall ==
    [op |-> "none", of |-> "", msg |-> "", tipe |-> 0, value |-> Empty,
     d |-> <<>>, tps |-> Default, was |-> None]

NoRet == Ret("none", 0, <<>>)

NewHandler == [local |-> Default, remote |-> None]

AfterCall(r) == IF r.kind = "Panic" THEN "panicked" ELSE phase

(***************************************************************************)
(* Calls on the handler's sets.  The owner fills local during setup; the   *)
(* bound MaxEntries caps how many codes it sets.                           *)
(***************************************************************************)
CallSetInteger(tipe, value) ==
    /\ phase = "setup"
    /\ tipe \in DOMAIN local \/ Cardinality(DOMAIN local) < MaxEntries
    /\ LET r == SetInteger(local, tipe, value)
       IN  /\ local' = r.params
           /\ ret' = IF r.panic THEN Panic("Transport parameter not known")
                     ELSE Ret("Unit", 0, <<>>)
           /\ phase' = IF r.panic THEN "panicked" ELSE phase
    /\ arg' = Call("set_integer", "local", "", tipe, Integer(value), <<>>)
    /\ UNCHANGED <<remote, peer>>

CallSetBytes(tipe, value) ==
    /\ phase = "setup"
    /\ tipe \in DOMAIN local \/ Cardinality(DOMAIN local) < MaxEntries
    /\ LET r == SetBytes(local, tipe, value)
       IN  /\ local' = r.params
           /\ ret' = IF r.panic
                     THEN Panic("Transport parameter not known or not type bytes")
                     ELSE Ret("Unit", 0, <<>>)
           /\ phase' = IF r.panic THEN "panicked" ELSE phase
    /\ arg' = Call("set_bytes", "local", "", tipe, Bytes(value), <<>>)
    /\ UNCHANGED <<remote, peer>>

\* the set a getter is called on: self.local, or self.remote once it is Some
Target(of) == IF of = "local" THEN local ELSE remote.tps

CanCall(of) ==
    /\ phase \in {"setup", "handshake"}
    /\ of = "remote" => remote.some

CallGetInteger(of, tipe) ==
    /\ CanCall(of)
    /\ ret' = GetInteger(Target(of), tipe)
    /\ phase' = AfterCall(ret')
    /\ arg' = Call("get_integer", of, "", tipe, Empty, <<>>)
    /\ UNCHANGED <<local, remote, peer>>

CallGetBytes(of, tipe) ==
    /\ CanCall(of)
    /\ ret' = GetBytes(Target(of), tipe)
    /\ phase' = AfterCall(ret')
    /\ arg' = Call("get_bytes", of, "", tipe, Empty, <<>>)
    /\ UNCHANGED <<local, remote, peer>>

CallWasSent(of, tipe) ==
    /\ CanCall(of)
    /\ ret' = Ret("Bool", IF WasSent(Target(of), tipe) THEN 1 ELSE 0, <<>>)
    /\ arg' = Call("was_sent", of, "", tipe, Empty, <<>>)
    /\ UNCHANGED <<local, remote, peer, phase>>

(***************************************************************************)
(* Calls of the handshake framework.                                       *)
(***************************************************************************)
CallWrite(msg, d) ==
    /\ phase = "handshake"
    /\ \E buf \in TransportParametersEncode(local) :
          ret' = HandlerWrite(msg, d, buf)
    /\ phase' = AfterCall(ret')
    /\ arg' = Call("write", "local", msg, 0, Empty, d)
    /\ UNCHANGED <<local, remote, peer>>

CallHandle(msg, d) ==
    /\ phase = "handshake"
    /\ \E r \in {HandlerHandle(remote, msg, d)} :
          /\ remote' = r.remote
          /\ ret' = r.ret
    /\ arg' = Call("handle", "remote", msg, 0, Empty, d)
    /\ UNCHANGED <<local, peer, phase>>

\* the owner is done with local and the handshake begins
StartHandshake ==
    /\ phase = "setup"
    /\ phase' = "handshake"
    /\ UNCHANGED <<local, remote, peer, arg, ret>>

\* the message the last write put its bytes in reaches the peer, whose
\* handle is called with the kind of that message and those bytes
PeerHandle ==
    /\ phase = "handshake"
    /\ arg.op = "write"
    /\ ret.kind = "Write"
    /\ \E d \in {SubSeq(ret.bytes, 1, ret.n)} :
          \E r \in {HandlerHandle(peer.remote, arg.msg, d)} :
             /\ peer' = [peer EXCEPT !.remote = r.remote]
             /\ ret' = r.ret
             /\ arg' = [Call("peer.handle", "remote", arg.msg, 0, Empty, d)
                          EXCEPT !.was = peer.remote]
    /\ UNCHANGED <<local, remote, phase>>

(***************************************************************************)
(* Spec: one handler during the handshake.                                 *)
(***************************************************************************)
Init ==
    /\ local \in InitLocals
    /\ remote = None
    /\ peer = NewHandler
    /\ phase = "handshake"
    /\ arg = NoCall
    /\ ret = NoRet

Write == \E msg \in MsgKinds, d \in OutSlices : CallWrite(msg, d)

Handle == \E msg \in MsgKinds, d \in HandleInputs : CallHandle(msg, d)

Next == Write \/ Handle

Spec == Init /\ [][Next]_vars

(***************************************************************************)
(* Properties of the handler during the handshake (Spec).                  *)
(***************************************************************************)
\* C3: all-or-nothing remote set.  A handle call for a relevant message
\* whose input TransportParameters::decode rejects returns Alert(47) and
\* leaves remote as it was; remote changes only in a handle call that
\* returns Ok, and is then Some of the whole decoded set.
C3_AllOrNothing ==
    [][ /\ ( /\ arg'.op = "handle"
             /\ arg'.msg \in {TLS_HS_CLIENT_HELLO, TLS_HS_ENCRYPTED_EXTENSIONS}
             /\ ~TransportParametersDecode(Data(arg'.d)).ok )
           => (ret'.kind = "Alert" /\ ret'.n = 47 /\ remote' = remote)
        /\ (ret'.kind = "Alert" => remote' = remote)
        /\ remote' # remote
           => ( /\ arg'.op = "handle"
                /\ ret'.kind = "Ok"
                /\ TransportParametersDecode(Data(arg'.d)).ok
                /\ remote' = Some(TransportParametersDecode(Data(arg'.d)).tps) )
      ]_vars

\* C3 witness: remote is present, and a later handle call whose input has a
\* good entry followed by a bad one was answered with Alert(47); remote is
\* still the set stored before, not the entry decoded before the failure
C3_Witness ==
    /\ arg.op = "handle"
    /\ arg.d = Entry(1, 1, <<5>>) \o Entry(10, 1, <<21>>)
    /\ ret.kind = "Alert"
    /\ ret.n = 47
    /\ arg.was = Some((10 :> Integer(20)))
    /\ remote = Some((10 :> Integer(20)))

\* C4 as claimed: once remote is present, no later call changes it
C4_WriteOnce == [][remote.some => remote' = remote]_vars

\* C4 as amended: remote never goes back to absent, only a handle call that
\* returns Ok changes it, and such a call replaces it by the set decoded from
\* that call's input, whether remote was absent or present before
C4_OneWayLastWins ==
    [][ /\ remote.some => remote'.some
        /\ remote' # remote => (arg'.op = "handle" /\ ret'.kind = "Ok")
        /\ (arg'.op = "handle" /\ ret'.kind = "Ok")
           => remote' = Some(TransportParametersDecode(Data(arg'.d)).tps)
      ]_vars

\* C4 witness: a second successful handle call has replaced the set the
\* first one stored
C4_Witness ==
    /\ arg.op = "handle"
    /\ arg.d = Entry(10, 1, <<20>>)
    /\ ret.kind = "Ok"
    /\ arg.was = Some((1 :> Integer(5)))
    /\ remote = Some((10 :> Integer(20)))

\* the byte count of an encoding of params: four header bytes per entry and
\* its payload
C8_EncodedLen(params) ==
    LET Size(t) ==
            4 + ( CASE params[t].variant = "Bytes" -> Len(params[t].bytes)
                    [] params[t].variant = "Integer" ->
                         GetVarintLen(params[t].int)
                    [] OTHER -> 0 )
        RECURSIVE Sum(_)
        Sum(S) == IF S = {} THEN 0
                  ELSE LET t == CHOOSE x \in S : TRUE
                       IN  Size(t) + Sum(S \ {t})
    IN  Sum(DOMAIN params)

InitSet ==
    /\ local = Default
    /\ remote = None
    /\ peer = NewHandler
    /\ phase \in {"setup", "handshake"}
    /\ arg = NoCall
    /\ ret = NoRet

SetIntegerCalls ==
    \E tipe \in AccessorCodes :
       \E value \in SetIntegerValues(tipe) : CallSetInteger(tipe, value)

SetBytesCalls ==
    \E tipe \in AccessorCodes :
       \E value \in SetBytesValues(tipe) : CallSetBytes(tipe, value)

GetIntegerCalls ==
    \E of \in {"local", "remote"}, tipe \in AccessorCodes : CallGetInteger(of, tipe)

GetBytesCalls ==
    \E of \in {"local", "remote"}, tipe \in AccessorCodes : CallGetBytes(of, tipe)

WasSentCalls ==
    \E of \in {"local", "remote"}, tipe \in AccessorCodes : CallWasSent(of, tipe)

NextSet ==
    \/ SetIntegerCalls
    \/ SetBytesCalls
    \/ GetIntegerCalls
    \/ GetBytesCalls
    \/ WasSentCalls
    \/ Handle

SpecSet == InitSet /\ [][NextSet]_vars

(***************************************************************************)
(* SpecPeer: the owner sets up local, the handshake begins, write puts     *)
(* local on the wire and the peer's handle reads those bytes.              *)
(***************************************************************************)
InitPeer ==
    /\ local = Default
    /\ remote = None
    /\ peer = NewHandler
    /\ phase = "setup"
    /\ arg = NoCall
    /\ ret = NoRet

NextPeer ==
    \/ SetIntegerCalls
    \/ SetBytesCalls
    \/ StartHandshake
    \/ Write
    \/ PeerHandle

SpecPeer == InitPeer /\ [][NextPeer]_vars

(***************************************************************************)
(* SpecCodec: the codec as functions.  Init draws the input, a set of      *)
(* valid entries or wire bytes, and one step applies encode-then-decode,   *)
(* TransportParameter::decode or TransportParameters::decode to it.        *)
(***************************************************************************)
InitCodec ==
    /\ local = Default
    /\ remote = None
    /\ peer = NewHandler
    /\ phase = "codec"
    /\ \/ \E S \in ValidSets : arg = [NoCall EXCEPT !.op = "input", !.tps = S]
       \/ \E w \in WireInputs : arg = [NoCall EXCEPT !.op = "input", !.d = w]
    /\ ret = NoRet

Res(r) == [kind |-> "Res", n |-> 0, bytes |-> <<>>, res |-> r]

\* tests::test_basic_tps: encode the set, decode the bytes
RoundTrip ==
    /\ arg.op = "input"
    /\ arg.d = <<>>
    /\ \E e \in TransportParametersEncode(arg.tps) :
          /\ arg' = [arg EXCEPT !.op = "roundtrip", !.d = e]
          /\ ret' = Res(TransportParametersDecode(Data(e)))
    /\ UNCHANGED <<local, remote, peer, phase>>

DecodeEntry ==
    /\ arg.op = "input"
    /\ arg.tps = Default
    /\ arg' = [arg EXCEPT !.op = "TransportParameter::decode"]
    /\ ret' = Res(TransportParameterDecode(Data(arg.d)))
    /\ UNCHANGED <<local, remote, peer, phase>>

DecodeSet ==
    /\ arg.op = "input"
    /\ arg.tps = Default
    /\ arg' = [arg EXCEPT !.op = "TransportParameters::decode"]
    /\ ret' = Res(TransportParametersDecode(Data(arg.d)))
    /\ UNCHANGED <<local, remote, peer, phase>>

NextCodec == RoundTrip \/ DecodeEntry \/ DecodeSet

SpecCodec == InitCodec /\ [][NextCodec]_vars

(***************************************************************************)
(* Properties of the accessors (SpecSet).                                  *)
(***************************************************************************)
\* the protocol defaults as the documentation lists them
C7_Default(tipe) ==
    CASE tipe \in {1, 4, 5, 6, 7, 8, 9} -> 0
      [] tipe = 3 -> 65527
      [] tipe = 10 -> 3
      [] tipe = 11 -> 25

\* C7: defaults.  get_integer on an integer-typed code returns the stored
\* Integer when the set has an entry for the code and the protocol default
\* otherwise, and changes neither set; right after set_integer(code, v),
\* get_integer(code) returns v and was_sent(code) is true; right after
\* get_integer returned a default for an absent code, was_sent(code) is
\* still false.
C7_Defaults ==
    [][ /\ (arg'.op = "get_integer" /\ arg'.tipe \in {1, 3, 4, 5, 6, 7, 8, 9, 10, 11})
           => ( /\ ret'.kind = "Integer"
                /\ ret'.n = IF arg'.tipe \in DOMAIN Target(arg'.of)
                            THEN Target(arg'.of)[arg'.tipe].int
                            ELSE C7_Default(arg'.tipe)
                /\ local' = local
                /\ remote' = remote )
        /\ ( /\ arg.op = "set_integer"
             /\ ret.kind = "Unit"
             /\ arg'.of = "local"
             /\ arg'.tipe = arg.tipe )
           => ( /\ arg'.op = "get_integer" => ret'.n = arg.value.int
                /\ arg'.op = "was_sent" => ret'.n = 1 )
        /\ ( /\ arg.op = "get_integer"
             /\ ret.kind = "Integer"
             /\ arg.tipe \notin DOMAIN Target(arg.of)
             /\ arg'.op = "was_sent"
             /\ arg'.of = arg.of
             /\ arg'.tipe = arg.tipe )
           => ret'.n = 0
      ]_vars

\* C7 witness: get_integer has just returned the default 25 for
\* max-ack-delay on a set that holds other entries and not that code
C7_Witness ==
    /\ arg.op = "get_integer"
    /\ arg.of = "local"
    /\ arg.tipe = TRANSPORT_PARAMETER_MAX_ACK_DELAY
    /\ ret.kind = "Integer"
    /\ ret.n = 25
    /\ DOMAIN local = {3, 10}

\* the variant the registry fixes for each code
C9_RegistryVariant(tipe) ==
    CASE tipe \in {0, 2} -> "Bytes"
      [] tipe \in {1, 3, 4, 5, 6, 7, 8, 9, 10, 11} -> "Integer"
      [] tipe = 12 -> "Empty"
      [] OTHER -> "none"

C9_SetOk(params) ==
    /\ \A t \in DOMAIN params : params[t].variant = C9_RegistryVariant(t)
    /\ \A t \in {1, 3, 4, 5, 6, 7, 8, 9, 10, 11} :
          GetInteger(params, t).kind = "Integer"
    /\ \A t \in {0, 2} : GetBytes(params, t).kind \in {"None", "Some"}

\* C9: registry-variant invariant.  In local, as the setters build it, and
\* in remote, as handle stores it from wire bytes, every entry has a code
\* of the registry and the variant the registry fixes for it; get_integer on
\* every integer-typed code and get_bytes on both byte-typed codes return a
\* value, and no accessor call ends in the "Internal error" panic.
C9_RegistryVariants ==
    /\ C9_SetOk(local)
    /\ remote.some => C9_SetOk(remote.tps)
    /\ ret.kind = "Panic" => ret.message # "Internal error"

\* C9 witness: handle stored a set with a Bytes and an Integer entry from
\* the wire, and get_bytes on it returned the token
C9_Witness ==
    /\ arg.op = "get_bytes"
    /\ arg.of = "remote"
    /\ arg.tipe = TRANSPORT_PARAMETER_STATELESS_RESET_TOKEN
    /\ ret.kind = "Some"
    /\ ret.bytes = Token16
    /\ remote = Some((2 :> Bytes(Token16)) @@ (8 :> Integer(10)))

(***************************************************************************)
(* Properties of write followed by the peer's handle (SpecPeer).           *)
(***************************************************************************)
\* C10 as claimed: whatever the setters stored in local, the bytes write
\* produced are accepted by the peer's handle for a relevant message, and
\* the peer's remote equals local
C10_SettersAgree ==
    (arg.op = "peer.handle" /\ arg.msg \in {TLS_HS_CLIENT_HELLO, TLS_HS_ENCRYPTED_EXTENSIONS})
    => (ret.kind = "Ok" /\ peer.remote = Some(local))

\* the per-code constraints of the decoder
C10_MeetsWire(tipe, tp) ==
    CASE tipe = TRANSPORT_PARAMETER_MAX_PACKET_SIZE -> tp.int >= 1200
      [] tipe = TRANSPORT_PARAMETER_ACK_DELAY_EXPONENT -> tp.int <= 20
      [] tipe = TRANSPORT_PARAMETER_STATELESS_RESET_TOKEN -> Len(tp.bytes) = 16
      [] OTHER -> TRUE

\* C10 as amended: when every entry the setters stored in local meets the
\* decoder's constraint for its code (max-packet-size >= 1200,
\* ack-delay-exponent <= 20, stateless-reset-token of 16 bytes), the peer's
\* handle returns Ok and the peer's remote equals local; when some entry
\* does not, the peer's handle returns Alert(47) and keeps its remote.
C10_ValidSettersAgree ==
    (arg.op = "peer.handle" /\ arg.msg \in {TLS_HS_CLIENT_HELLO, TLS_HS_ENCRYPTED_EXTENSIONS})
    => IF \A t \in DOMAIN local : C10_MeetsWire(t, local[t])
       THEN ret.kind = "Ok" /\ peer.remote = Some(local)
       ELSE ret.kind = "Alert" /\ ret.n = 47 /\ peer.remote = arg.was

\* C10 witness: the peer accepted a local set of a reset token and an
\* integer with an eight-byte encoding
C10_Witness ==
    /\ arg.op = "peer.handle"
    /\ ret.kind = "Ok"
    /\ local = (2 :> Bytes(Token16)) @@ (11 :> Integer(1073741824))
    /\ peer.remote = Some(local)

(***************************************************************************)
(* Properties of the codec (SpecCodec).  The formulas read the wire bytes  *)
(* themselves: code and declared length from the four header bytes, the    *)
(* payload as the declared-length bytes after them.                        *)
(***************************************************************************)
WireCode(b) == b[1] * 256 + b[2]

WireLength(b) == b[3] * 256 + b[4]

WirePayload(b) == SubSeq(b, 5, 4 + WireLength(b))

\* b starts with a whole entry: header and declared-length payload
WireWhole(b) == Len(b) >= 4 /\ Len(b) >= 4 + WireLength(b)

\* p is exactly one varint: its first byte announces Len(p) bytes
WireIsVarint(p) ==
    /\ Len(p) >= 1
    /\ Len(p) = ( CASE p[1] \div 64 = 0 -> 1 [] p[1] \div 64 = 1 -> 2
                    [] p[1] \div 64 = 2 -> 4 [] p[1] \div 64 = 3 -> 8 )

RECURSIVE WireNumber(_, _)
WireNumber(p, n) ==
    IF n = 1 THEN p[1] % 64 ELSE WireNumber(p, n - 1) * 256 + p[n]

WireVarint(p) == WireNumber(p, Len(p))

\* C1 as claimed: round trip.  For every set of valid entries and every
\* order in which encode may emit them, decode of the encoding succeeds and
\* gives the set back.
C1_RoundTrip ==
    arg.op = "roundtrip" => (ret.res.ok /\ ret.res.tps = arg.tps)

\* C2 as claimed, the kind of the error left open: length mismatch.  When
\* TransportParameter::decode reads an entry with a known code whose value
\* decoder yields a value after consuming a number of bytes other than the
\* declared length, fewer or more, it fails and returns no (code, value)
\* pair.  (The claim also names the error, TransportParameterError; the
\* checks after the match return NoMoreData.)
C2_LengthMismatch ==
    ( /\ arg.op = "TransportParameter::decode"
      /\ Len(arg.d) >= 4
      /\ WireCode(arg.d) \in {0, 1, 2, 3, 4, 5, 6, 7, 8, 9, 10, 11}
      /\ LET m == DecodeValue(WireCode(arg.d), WireLength(arg.d),
                              [buf |-> arg.d, offset |-> 4])
         IN  ~m.fin /\ m.d.offset - 4 # WireLength(arg.d) )
    => ~ret.res.ok

\* C5: boundary rejection.  TransportParameter::decode of a well-formed
\* entry (the payload is the declared-length bytes; for an integer code it
\* is exactly one varint, of value v): max-packet-size fails with
\* TransportParameterError when v < 1200 and gives Integer(v) otherwise;
\* ack-delay-exponent fails with it when v > 20 and gives Integer(v)
\* otherwise; stateless-reset-token fails with it when the declared length
\* is not 16 and gives Bytes of the 16 bytes otherwise; the other integer
\* codes give Integer(v) and original-connection-id gives Bytes(payload).
C5_BoundaryRejection ==
    (arg.op = "TransportParameter::decode" /\ Len(arg.d) >= 4)
    => LET tipe == WireCode(arg.d)
           p == WirePayload(arg.d)
           r == ret.res
           Fails == ~r.ok /\ r.err = "TransportParameterError"
           Gives(tp) == r.ok /\ r.tipe = tipe /\ r.tp = tp
                        /\ r.d.offset = 4 + WireLength(arg.d)
       IN  /\ (tipe = 2 /\ WireLength(arg.d) # 16) => Fails
           /\ (tipe = 2 /\ WireLength(arg.d) = 16 /\ WireWhole(arg.d))
              => Gives(Bytes(p))
           /\ (tipe = 0 /\ WireWhole(arg.d)) => Gives(Bytes(p))
           /\ (tipe = 3 /\ WireWhole(arg.d) /\ WireIsVarint(p))
              => IF WireVarint(p) < 1200 THEN Fails
                 ELSE Gives(Integer(WireVarint(p)))
           /\ (tipe = 10 /\ WireWhole(arg.d) /\ WireIsVarint(p))
              => IF WireVarint(p) > 20 THEN Fails
                 ELSE Gives(Integer(WireVarint(p)))
           /\ (tipe \in {1, 4, 5, 6, 7, 8, 9, 11} /\ WireWhole(arg.d)
               /\ WireIsVarint(p))
              => Gives(Integer(WireVarint(p)))

\* C5 witness: max-packet-size 1199 was rejected
C5_Witness ==
    /\ arg.op = "TransportParameter::decode"
    /\ arg.d = Entry(3, 2, <<68, 175>>)
    /\ ~ret.res.ok
    /\ ret.res.err = "TransportParameterError"

\* the entries of b, split at the declared lengths; the code -1 marks where
\* b stops being a sequence of whole entries
RECURSIVE WireEntries(_)
WireEntries(b) ==
    IF b = <<>> THEN <<>>
    ELSE IF ~WireWhole(b) THEN <<[tipe |-> -1, payload |-> <<>>]>>
    ELSE <<[tipe |-> WireCode(b), payload |-> WirePayload(b)]>>
         \o WireEntries(SubSeq(b, 5 + WireLength(b), Len(b)))

WireKnown(e) == e.tipe \in {0, 1, 2, 3, 4, 5, 6, 7, 8, 9, 10, 11}

\* a known entry that meets its code's constraints
WireGood(e) ==
    CASE e.tipe = 0 -> TRUE
      [] e.tipe = 2 -> Len(e.payload) = 16
      [] e.tipe = 3 -> WireIsVarint(e.payload) /\ WireVarint(e.payload) >= 1200
      [] e.tipe = 10 -> WireIsVarint(e.payload) /\ WireVarint(e.payload) <= 20
      [] OTHER -> WireIsVarint(e.payload)

WireValue(e) ==
    IF e.tipe \in {0, 2} THEN Bytes(e.payload)
    ELSE Integer(WireVarint(e.payload))

\* the set the known entries of es give, a later entry replacing an earlier
\* one of the same code
RECURSIVE WireSet(_, _)
WireSet(es, n) ==
    IF n = 0 THEN Default
    ELSE IF WireKnown(es[n])
    THEN Insert(WireSet(es, n - 1), es[n].tipe, WireValue(es[n]))
    ELSE WireSet(es, n - 1)

\* C6: unknown-skip.  TransportParameters::decode never returns the
\* unknown-parameter signal; a buffer of whole entries, each either of a
\* code the decoder does not know (12, 13 and the codes outside the
\* registry) or a known one that meets its constraints, decodes to the set
\* of the known entries; and an error other than the unknown-parameter
\* signal from the first entry, or from the entry after a first one that was
\* stored or skipped, is the result of the whole decode.
C6_UnknownSkip ==
    arg.op = "TransportParameters::decode"
    => LET r == ret.res
           es == WireEntries(arg.d)
           first == TransportParameterDecode(Data(arg.d))
           second == TransportParameterDecode(first.d)
           Fatal(x) == ~x.ok /\ x.err # "UnknownTransportParameter"
       IN  /\ ~r.ok => r.err # "UnknownTransportParameter"
           /\ ( /\ \A i \in 1..Len(es) : es[i].tipe # -1
                /\ \A i \in 1..Len(es) : WireKnown(es[i]) => WireGood(es[i]) )
              => (r.ok /\ r.tps = WireSet(es, Len(es)))
           /\ (arg.d # <<>> /\ Fatal(first)) => r = SetErr(first.err)
           /\ (arg.d # <<>> /\ ~Fatal(first) /\ Remaining(first.d) > 0
               /\ Fatal(second))
              => r = SetErr(second.err)

\* C6 witness: an entry of code 14 followed by idle-timeout 5 decoded to the
\* set holding only idle-timeout
C6_Witness ==
    /\ arg.op = "TransportParameters::decode"
    /\ arg.d = Entry(14, 1, <<7>>) \o Entry(1, 1, <<5>>)
    /\ ret.res.ok
    /\ ret.res.tps = (1 :> Integer(5))

====
